---- MODULE Spec2Model ----
(***************************************************************************)
(* Model of the Pulse front end: the DataSelection component (job          *)
(* submission, WebSocket progress, status fetch, stop) inside the App      *)
(* component that mounts it and receives its completion callback.          *)
(***************************************************************************)
EXTENDS Integers, Sequences, FiniteSets, TLC

\* ---------------------------------------------------------------- bounds
MaxJobs == 2      \* jobs created
MaxPosts == 2     \* submit requests awaiting their answer
MaxPolls == 2     \* status fetches awaiting their answer plus callbacks made
MaxCancels == 2   \* cancel requests awaiting their answer
MaxInst == 2      \* DataSelection instances mounted in one run

Jobs == 1..MaxJobs
Insts == 1..MaxInst

\* null of currentJobId, wsRef.current, jobId
NoJob == 0
NoWs == 0
NoFile == [base |-> "", ext |-> ""]
NoResults == <<>>

\* useState defaults of the settings sliders
DefaultMaxReviews == 500
DefaultBatchSize == 20
DefaultMaxPages == 10

\* positions the sliders can be dragged to (a default and one other each)
MaxReviewsValues == {DefaultMaxReviews, 550}
BatchSizeValues == {DefaultBatchSize, 25}
MaxPagesValues == {DefaultMaxPages, 11}

\* an absent field or array element (undefined / null)
Undefined == "undefined"
\* no audit has opened the modal yet
NoAudit ==
  [level1Id |-> Undefined, level2Name |-> Undefined, repeated |-> FALSE]

\* ---------------------------------------------------------------- inputs
\* the text of the URL textarea, as a sequence of characters
UrlTexts == { <<>>, <<" ", "\n", " ">>, <<"\n", "a", " ">> }

\* files the user can pick or drop: [name, ext]
Files ==
  { [base |-> "reviews", ext |-> "csv"], [base |-> "notes", ext |-> "txt"] }

ProgressValues == {0, 40, 100}
PushStatuses == {"running", "completed", "failed"}
PushMessages == {"Scraping"}
Kinds == {"urls", "upload"}

\* answers of GET /api/jobs/{id}
\* (status "error": the request fails on the network; "notfound": it is
\* rejected with 404), with or without job.results
PollStatuses ==
  {"completed", "running", "failed", "cancelled", "error", "notfound"}

VARIABLES
  \* DataSelection state (useState / useRef) of the mounted instance
  inputMethod, urls, selectedFile, isAnalyzing, progress, statusMessage,
  currentJobId, wsRef,
  \* React: the mounted DataSelection instance (0: none) and instances made
  cur, insts,
  \* App state
  currentView, results, jobId,
  \* App: the settings sliders, the company name of the header, the theme
  maxReviews, batchSize, maxPages, companyName, isDarkMode,
  \* network: WebSockets, requests awaiting their response
  sockets, posts, gets, deletes,
  \* observations: the last window.alert, the onAnalysisComplete calls per
  \* job, the first terminal outcome a handler of the monitor took per job
  alertMsg, completeCalls, observed,
  \* the result set the dashboard receives: results.reviews,
  \* results.topic_assignments, results.sentiment_results (joined by
  \* position) and results.hierarchical_stats
  reviews, topic_assignments, sentiment_results, hierarchical_stats,
  \* AnalyticsDashboard state of the review audit modal
  showReviewModal, selectedReviews, selectedTopicName,
  \* observation: the arguments of the last audit that opened the modal,
  \* and whether the audit before it had the same arguments
  lastAudit

dsVars == <<inputMethod, urls, selectedFile, isAnalyzing, progress,
            statusMessage, currentJobId>>
settingsVars == <<maxReviews, batchSize, maxPages>>
appVars == <<currentView, results, jobId, settingsVars, companyName,
             isDarkMode>>
netVars == <<sockets, posts, gets, deletes>>
obsVars == <<alertMsg, completeCalls, observed>>
dataVars ==
  <<reviews, topic_assignments, sentiment_results, hierarchical_stats>>
dashVars == <<showReviewModal, selectedReviews, selectedTopicName>>
auditVars == <<dataVars, dashVars, lastAudit>>
vars == <<dsVars, wsRef, cur, insts, appVars, netVars, obsVars, auditVars>>

\* ------------------------------------------------------- pure functions
IsSpace(c) == c \in {" ", "\n", "\t"}

RECURSIVE TrimStart(_)
TrimStart(s) ==
  IF s = <<>> THEN <<>>
  ELSE IF IsSpace(Head(s)) THEN TrimStart(Tail(s)) ELSE s

RECURSIVE TrimEnd(_)
TrimEnd(s) ==
  IF s = <<>> THEN <<>>
  ELSE IF IsSpace(s[Len(s)]) THEN TrimEnd(SubSeq(s, 1, Len(s) - 1)) ELSE s

\* String.prototype.trim
Trim(s) == TrimEnd(TrimStart(s))

\* String.prototype.split('\n'): the pieces between the separators
RECURSIVE SplitLines(_, _)
SplitLines(s, acc) ==
  IF s = <<>> THEN <<acc>>
  ELSE IF Head(s) = "\n" THEN <<acc>> \o SplitLines(Tail(s), <<>>)
  ELSE SplitLines(Tail(s), Append(acc, Head(s)))

\* mutant of UrlList: the filter keeps every non-empty line, blank or not
UrlListUntrimmed(text) ==
  SelectSeq(SplitLines(text, <<>>), LAMBDA l : l # <<>>)

\* urls.split('\n').filter(url => url.trim())
UrlList(text) == SelectSeq(SplitLines(text, <<>>), LAMBDA l : Trim(l) # <<>>)

\* file.name.endsWith('.csv') || '.xlsx' || '.xls'
AcceptedDrop(f) == f.ext \in {"csv", "xlsx", "xls"}

\* JavaScript truthiness of a string-or-undefined value, as `x || y` and
\* `if (x)` test it
Truthy(v) == v \notin {Undefined, ""}

\* a || b
Or(a, b) == IF Truthy(a) THEN a ELSE b

\* --------------------------------------------------------- company name
\* the characters of the strings that can become a company name
Chars(str) ==
  CASE str = "" -> <<>>
    [] str = "a" -> <<"a">>
    [] str = "b" -> <<"b">>
    [] str = "acme-co" -> <<"a", "c", "m", "e", "-", "c", "o">>
    [] str = "Bob_s" -> <<"B", "o", "b", "_", "s">>
    [] str = "ECo" -> <<"E", "C", "o">>

\* String.prototype.toUpperCase / toLowerCase on one character
ToUpperCase(c) ==
  CASE c = "a" -> "A" [] c = "b" -> "B" [] c = "c" -> "C" [] c = "e" -> "E"
    [] c = "m" -> "M" [] c = "o" -> "O" [] c = "s" -> "S" [] OTHER -> c

ToLowerCase(c) ==
  CASE c = "A" -> "a" [] c = "B" -> "b" [] c = "C" -> "c" [] c = "E" -> "e"
    [] c = "M" -> "m" [] c = "O" -> "o" [] c = "S" -> "s" [] OTHER -> c

\* String.prototype.split(' ')
RECURSIVE SplitWords(_, _)
SplitWords(s, acc) ==
  IF s = <<>> THEN <<acc>>
  ELSE IF Head(s) = " " THEN <<acc>> \o SplitWords(Tail(s), <<>>)
  ELSE SplitWords(Tail(s), Append(acc, Head(s)))

\* Array.prototype.join(' ')
RECURSIVE JoinWords(_)
JoinWords(words) ==
  IF words = <<>> THEN <<>>
  ELSE IF Len(words) = 1 THEN words[1]
  ELSE words[1] \o <<" ">> \o JoinWords(Tail(words))

\* word.charAt(0).toUpperCase() + word.slice(1).toLowerCase()
TitleCase(word) ==
  [i \in 1..Len(word) |->
     IF i = 1 THEN ToUpperCase(word[i]) ELSE ToLowerCase(word[i])]

\* kebab-case, snake_case or a domain label to Title Case
formatCompanyName(name) ==
  LET spaced == [i \in 1..Len(name) |->
                   IF name[i] \in {"-", "_"} THEN " " ELSE name[i]]
      words == SplitWords(spaced, <<>>)
  IN JoinWords([k \in 1..Len(words) |-> TitleCase(words[k])])

\* new URL(url): valid is FALSE where the constructor throws; hostname is
\* the list of the labels between the dots, pathParts is
\* pathname.split('/')
ParseUrl(url) ==
  CASE url = "https://a" ->
         [valid |-> TRUE, hostname |-> <<"a">>, pathParts |-> <<"", "">>]
    [] url = "https://b" ->
         [valid |-> TRUE, hostname |-> <<"b">>, pathParts |-> <<"", "">>]
    [] url = "https://www.trustpilot.com/review/acme-co" ->
         [valid |-> TRUE, hostname |-> <<"www", "trustpilot", "com">>,
          pathParts |-> <<"", "review", "acme-co">>]
    [] url = "https://www.glassdoor.com/Reviews/ECo" ->
         [valid |-> TRUE, hostname |-> <<"www", "glassdoor", "com">>,
          pathParts |-> <<"", "Reviews", "ECo">>]
    [] url = "https://www.yelp.com/biz/Bob_s" ->
         [valid |-> TRUE, hostname |-> <<"www", "yelp", "com">>,
          pathParts |-> <<"", "biz", "Bob_s">>]
    [] url = "https://a.yelp.com/" ->
         [valid |-> TRUE, hostname |-> <<"a", "yelp", "com">>,
          pathParts |-> <<"", "">>]
    [] OTHER ->
         [valid |-> FALSE, hostname |-> <<>>, pathParts |-> <<>>]

\* hostname.replace('www.', ''), label by label: the first label "www"
\* that a dot follows is dropped
RECURSIVE WithoutWww(_)
WithoutWww(hostname) ==
  IF Len(hostname) < 2 THEN hostname
  ELSE IF Head(hostname) = "www" THEN Tail(hostname)
  ELSE <<Head(hostname)>> \o WithoutWww(Tail(hostname))

\* domain.includes('<site>.com'), label by label
DomainIncludes(domain, site) ==
  \E i \in 1..(Len(domain) - 1) : domain[i] = site /\ domain[i + 1] = "com"

\* pathParts.indexOf(part), counted from 0; -1 when absent
IndexOf(pathParts, part) ==
  IF \E i \in 1..Len(pathParts) : pathParts[i] = part
  THEN (CHOOSE i \in 1..Len(pathParts) :
          /\ pathParts[i] = part
          /\ \A k \in 1..(i - 1) : pathParts[k] # part) - 1
  ELSE -1

\* pathParts[index], index counted from 0
PartAt(pathParts, index) ==
  IF index + 1 \in 1..Len(pathParts) THEN pathParts[index + 1] ELSE Undefined

\* the 'Unknown Company' of the catch block
UnknownCompany ==
  <<"U", "n", "k", "n", "o", "w", "n", " ", "C", "o", "m", "p", "a", "n", "y">>

\* the company a review URL is about: the path segment after /review/ on
\* trustpilot, the second segment on glassdoor, the segment after /biz/ on
\* yelp, otherwise the first label of the domain
extractCompanyName(url) ==
  LET urlObj == ParseUrl(url)
      domain == WithoutWww(urlObj.hostname)
      pathParts == urlObj.pathParts
      companyIndex == IndexOf(pathParts, "review")
      bizIndex == IndexOf(pathParts, "biz")
      byDomain == formatCompanyName(Chars(domain[1]))
  IN IF ~urlObj.valid THEN UnknownCompany
     ELSE IF DomainIncludes(domain, "trustpilot")
     THEN IF companyIndex # -1 /\ Truthy(PartAt(pathParts, companyIndex + 1))
          THEN formatCompanyName(Chars(PartAt(pathParts, companyIndex + 1)))
          ELSE byDomain
     ELSE IF DomainIncludes(domain, "glassdoor")
     THEN IF Len(pathParts) > 2
          THEN formatCompanyName(Chars(pathParts[3]))
          ELSE byDomain
     ELSE IF DomainIncludes(domain, "yelp")
     THEN IF bizIndex # -1 /\ Truthy(PartAt(pathParts, bizIndex + 1))
          THEN formatCompanyName(Chars(PartAt(pathParts, bizIndex + 1)))
          ELSE byDomain
     ELSE byDomain

\* the inputCompanyName argument of the completion callback: absent
\* (undefined) or a text; onAnalysisComplete(jobId, job.results) passes none
NoName == [defined |-> FALSE, text |-> <<>>]

\* inputCompanyName && inputCompanyName.trim()
NonBlank(inputCompanyName) ==
  /\ inputCompanyName.defined
  /\ inputCompanyName.text # <<>>
  /\ Trim(inputCompanyName.text) # <<>>

\* analysisResults.reviews && analysisResults.reviews.length > 0 and
\* firstReview.source_url
HasSourceUrl(items) == Len(items) > 0 /\ Truthy(items[1].source_url)

\* ------------------------------------------------------------- helpers
\* instance that owns job j: the one whose handleStartAnalysis opened its socket
InstOf(j) == sockets[j].inst

\* a state setter of instance i takes effect only while i is mounted
Mounted(i) == i # 0 /\ i = cur

\* the result set the server holds for job j once it has completed
\* a job record without results
ResultsMissing(j) == NoResults

ResultsOf(j) == <<"results of job", j>>

\* requests of one kind awaiting their answer
RECURSIVE Total(_)
Total(f) ==
  IF DOMAIN f = {} THEN 0
  ELSE LET x == CHOOSE y \in DOMAIN f : TRUE
       IN f[x] + Total([y \in DOMAIN f \ {x} |-> f[y]])

Pending(p) == Total([i \in DOMAIN p |-> Total(p[i])])

\* the first terminal outcome taken for job j stays on record
Observe(j, outcome) ==
  IF observed[j] = "none" THEN [observed EXCEPT ![j] = outcome] ELSE observed

CloseWs(socks, w) ==
  IF w # NoWs /\ socks[w].state = "open"
  THEN [socks EXCEPT ![w].state = "closed"]
  ELSE socks

\* ---------------------------------------------------------------- Init
Init ==
  /\ inputMethod = "webscraping"
  /\ urls = <<>>
  /\ selectedFile = NoFile
  /\ isAnalyzing = FALSE
  /\ progress = 0
  /\ statusMessage = ""
  /\ currentJobId = NoJob
  /\ wsRef = [i \in Insts |-> NoWs]
  /\ cur = 1
  /\ insts = 1
  /\ currentView = "analysis"
  /\ results = NoResults
  /\ jobId = NoJob
  /\ maxReviews = DefaultMaxReviews
  /\ batchSize = DefaultBatchSize
  /\ maxPages = DefaultMaxPages
  /\ companyName = <<>>
  /\ isDarkMode = TRUE
  /\ sockets = <<>>
  /\ posts = [i \in Insts |-> [k \in Kinds |-> 0]]
  /\ gets = [j \in Jobs |-> 0]
  /\ deletes = [j \in Jobs |-> 0]
  /\ alertMsg = ""
  /\ completeCalls = [j \in Jobs |-> 0]
  /\ observed = [j \in Jobs |-> "none"]
  \* no result set yet, the dashboard is not rendered
  /\ reviews = <<>>
  /\ topic_assignments = <<>>
  /\ sentiment_results = <<>>
  /\ hierarchical_stats = <<>>
  /\ showReviewModal = FALSE
  /\ selectedReviews = <<>>
  /\ selectedTopicName = <<>>
  /\ lastAudit = NoAudit

\* ------------------------------------------------- DataSelection inputs
\* radio buttons, disabled while analyzing
SetInputMethod(m) ==
  /\ cur # 0 /\ ~isAnalyzing
  /\ inputMethod' = m
  /\ UNCHANGED <<urls, selectedFile, isAnalyzing, progress, statusMessage,
                 currentJobId, wsRef, cur, insts, appVars, netVars, obsVars>>
  /\ UNCHANGED auditVars

\* textarea onChange; rendered in web-scraping mode, disabled while analyzing
SetUrls(t) ==
  /\ cur # 0 /\ inputMethod = "webscraping" /\ ~isAnalyzing
  /\ urls' = t
  /\ UNCHANGED <<inputMethod, selectedFile, isAnalyzing, progress,
                 statusMessage, currentJobId, wsRef, cur, insts, appVars,
                 netVars, obsVars>>
  /\ UNCHANGED auditVars

\* the drop zone is rendered in upload mode and is never disabled
handleFileDrop(f) ==
  /\ cur # 0 /\ inputMethod = "upload"
  /\ IF AcceptedDrop(f)
     THEN selectedFile' = f /\ UNCHANGED alertMsg
     ELSE alertMsg' = "Please upload a CSV or Excel file"
          /\ UNCHANGED selectedFile
  /\ UNCHANGED <<inputMethod, urls, isAnalyzing, progress, statusMessage,
                 currentJobId, wsRef, cur, insts, appVars, netVars,
                 completeCalls, observed>>
  /\ UNCHANGED auditVars

\* the file input is rendered in upload mode, disabled while analyzing
handleFileSelect(f) ==
  /\ cur # 0 /\ inputMethod = "upload" /\ ~isAnalyzing
  /\ selectedFile' = f
  /\ UNCHANGED <<inputMethod, urls, isAnalyzing, progress, statusMessage,
                 currentJobId, wsRef, cur, insts, appVars, netVars, obsVars>>
  /\ UNCHANGED auditVars

\* ------------------------------------------------------ handleStartAnalysis
\* the validation of handleStartAnalysis: "" when the submission may go on,
\* else the alert shown before the early return
StartRejection(method, text, file) ==
  IF method = "webscraping"
  THEN IF Len(UrlList(text)) = 0 THEN "Please enter at least one URL" ELSE ""
  ELSE IF file = NoFile THEN "Please select a file" ELSE ""

\* mutant of StartKind: every submission goes to the URL endpoint
StartKindAlwaysUrls(method) == "urls"

\* the endpoint handleStartAnalysis posts to
StartKind(method) == IF method = "webscraping" THEN "urls" ELSE "upload"

\* Start button (disabled while analyzing), up to the await of axios.post
handleStartAnalysis ==
  /\ cur # 0 /\ ~isAnalyzing
  /\ Len(sockets) < MaxJobs /\ Pending(posts) < MaxPosts
  /\ LET why == StartRejection(inputMethod, urls, selectedFile) IN
     IF why # ""
     THEN /\ alertMsg' = why
          /\ UNCHANGED <<isAnalyzing, progress, statusMessage, posts>>
     ELSE /\ isAnalyzing' = TRUE
          /\ progress' = 0
          /\ statusMessage' = IF inputMethod = "webscraping"
                              THEN "Starting analysis..."
                              ELSE "Uploading file..."
          /\ posts' = [posts EXCEPT ![cur][StartKind(inputMethod)] = @ + 1]
          /\ UNCHANGED alertMsg
  /\ UNCHANGED <<inputMethod, urls, selectedFile, currentJobId, wsRef, cur,
                 insts, appVars, sockets, gets, deletes, completeCalls,
                 observed>>
  /\ UNCHANGED auditVars

\* a socket that is never opened
NewSocketClosed(j, i) == [job |-> j, inst |-> i, state |-> "closed"]

\* the socket connectWebSocket(jobId) makes for instance i
NewSocket(j, i) == [job |-> j, inst |-> i, state |-> "open"]

\* axios.post resolved: setCurrentJobId(jobId); connectWebSocket(jobId)
SubmitResolved(i, k) ==
  /\ posts[i][k] > 0 /\ Len(sockets) < MaxJobs
  /\ LET j == Len(sockets) + 1 IN
     /\ posts' = [posts EXCEPT ![i][k] = @ - 1]
     /\ sockets' = Append(sockets, NewSocket(j, i))
     /\ wsRef' = [wsRef EXCEPT ![i] = j]
     /\ currentJobId' = IF Mounted(i) THEN j ELSE currentJobId
  /\ UNCHANGED <<inputMethod, urls, selectedFile, isAnalyzing, progress,
                 statusMessage, cur, insts, appVars, gets, deletes, obsVars>>
  /\ UNCHANGED auditVars

\* error.response?.data?.detail || fallback
SubmitErrorMsg(kind, detail) ==
  IF detail # "" THEN detail
  ELSE IF kind = "urls" THEN "Analysis failed" ELSE "File upload failed"

\* mutant of SubmitRejected: the catch block forgets setIsAnalyzing(false)
SubmitRejectedStaysBusy(i, k, detail) ==
  /\ posts[i][k] > 0
  /\ posts' = [posts EXCEPT ![i][k] = @ - 1]
  /\ alertMsg' = SubmitErrorMsg(k, detail)
  /\ UNCHANGED <<dsVars, wsRef, cur, insts, appVars, sockets, gets, deletes,
                 completeCalls, observed>>
  /\ UNCHANGED auditVars

\* axios.post rejected: the catch block
SubmitRejected(i, k, detail) ==
  /\ posts[i][k] > 0
  /\ posts' = [posts EXCEPT ![i][k] = @ - 1]
  /\ isAnalyzing' = IF Mounted(i) THEN FALSE ELSE isAnalyzing
  /\ alertMsg' = SubmitErrorMsg(k, detail)
  /\ UNCHANGED <<inputMethod, urls, selectedFile, progress, statusMessage,
                 currentJobId, wsRef, cur, insts, appVars, sockets, gets,
                 deletes, completeCalls, observed>>
  /\ UNCHANGED auditVars

\* ------------------------------------------------------------------ App
\* the cleanup of DataSelection's useEffect, run when the view leaves
\* 'analysis' (DataSelection is rendered only in that view)
UnmountSockets(view) ==
  IF currentView = "analysis" /\ view # "analysis"
  THEN CloseWs(sockets, wsRef[cur])
  ELSE sockets

\* the mounted instance after the view changes to `view`
InstAfter(view) ==
  IF view # "analysis" THEN 0
  ELSE IF currentView = "analysis" THEN cur
  ELSE insts + 1

\* a DataSelection instance mounts with its useState initial values
FreshInstance ==
  /\ inputMethod' = "webscraping"
  /\ urls' = <<>>
  /\ selectedFile' = NoFile
  /\ isAnalyzing' = FALSE
  /\ progress' = 0
  /\ statusMessage' = ""
  /\ currentJobId' = NoJob

\* a completion callback that stores the result set and not its job id
handleAnalysisCompleteKeepsJobId(j, r, inputCompanyName) ==
  /\ jobId' = jobId
  /\ results' = r
  /\ companyName' =
       IF NonBlank(inputCompanyName) THEN inputCompanyName.text
       ELSE IF HasSourceUrl(reviews')
       THEN extractCompanyName(reviews'[1].source_url)
       ELSE companyName
  /\ UNCHANGED <<settingsVars, isDarkMode>>
  /\ currentView' = "dashboard"
  /\ cur' = InstAfter("dashboard")
  /\ sockets' = UnmountSockets("dashboard")
  /\ completeCalls' = [completeCalls EXCEPT ![j] = @ + 1]

\* App.handleAnalysisComplete(jobId, analysisResults, inputCompanyName):
\* reviews' is analysisResults.reviews; the view becomes 'dashboard', which
\* unmounts DataSelection
handleAnalysisComplete(j, r, inputCompanyName) ==
  /\ jobId' = j
  /\ results' = r
  /\ companyName' =
       IF NonBlank(inputCompanyName) THEN inputCompanyName.text
       ELSE IF HasSourceUrl(reviews')
       THEN extractCompanyName(reviews'[1].source_url)
       ELSE companyName
  /\ UNCHANGED <<settingsVars, isDarkMode>>
  /\ currentView' = "dashboard"
  /\ cur' = InstAfter("dashboard")
  /\ sockets' = UnmountSockets("dashboard")
  /\ completeCalls' = [completeCalls EXCEPT ![j] = @ + 1]

\* a navigation bar whose Dashboard button is never disabled
SetCurrentViewAlwaysEnabled(v) ==
  /\ v = "analysis" /\ currentView # "analysis" => insts < MaxInst
  /\ currentView' = v
  /\ cur' = InstAfter(v)
  /\ insts' = IF v = "analysis" /\ currentView # "analysis"
              THEN insts + 1 ELSE insts
  /\ sockets' = UnmountSockets(v)
  /\ IF v = "analysis" /\ currentView # "analysis"
     THEN FreshInstance
     ELSE UNCHANGED dsVars
  /\ UNCHANGED <<wsRef, results, jobId, posts, gets, deletes, obsVars>>
  /\ UNCHANGED <<settingsVars, companyName, isDarkMode>>
  /\ UNCHANGED auditVars

\* navigation buttons: setCurrentView(v); Dashboard is disabled without results
SetCurrentView(v) ==
  /\ v = "dashboard" => results # NoResults
  /\ v = "analysis" /\ currentView # "analysis" => insts < MaxInst
  /\ currentView' = v
  /\ cur' = InstAfter(v)
  /\ insts' = IF v = "analysis" /\ currentView # "analysis"
              THEN insts + 1 ELSE insts
  /\ sockets' = UnmountSockets(v)
  /\ IF v = "analysis" /\ currentView # "analysis"
     THEN FreshInstance
     ELSE UNCHANGED dsVars
  /\ UNCHANGED <<wsRef, results, jobId, posts, gets, deletes, obsVars>>
  /\ UNCHANGED <<settingsVars, companyName, isDarkMode>>
  /\ UNCHANGED auditVars

\* a refresh that leaves the sliders where they are
handleRefreshKeepsSettings ==
  /\ results # NoResults /\ currentView = "analysis"
  /\ results' = NoResults
  /\ jobId' = NoJob
  /\ companyName' = <<>>
  /\ currentView' = "analysis"
  /\ UNCHANGED <<settingsVars, isDarkMode, dsVars, wsRef, cur, insts,
                 netVars, obsVars>>
  /\ UNCHANGED auditVars

\* Refresh button, shown when results exist on the analysis view
handleRefresh ==
  /\ results # NoResults /\ currentView = "analysis"
  /\ results' = NoResults
  /\ jobId' = NoJob
  /\ companyName' = <<>>
  /\ maxReviews' = DefaultMaxReviews
  /\ batchSize' = DefaultBatchSize
  /\ maxPages' = DefaultMaxPages
  /\ currentView' = "analysis"
  /\ UNCHANGED <<isDarkMode, dsVars, wsRef, cur, insts, netVars, obsVars>>
  /\ UNCHANGED auditVars

\* the sliders of the sidebar: onChange of "Max reviews per site",
\* "Batch size" and "Max pages per site"
SetMaxReviews(v) ==
  /\ maxReviews' = v
  /\ UNCHANGED <<dsVars, wsRef, cur, insts, currentView, results, jobId,
                 batchSize, maxPages, companyName, isDarkMode, netVars,
                 obsVars, auditVars>>

SetBatchSize(v) ==
  /\ batchSize' = v
  /\ UNCHANGED <<dsVars, wsRef, cur, insts, currentView, results, jobId,
                 maxReviews, maxPages, companyName, isDarkMode, netVars,
                 obsVars, auditVars>>

SetMaxPages(v) ==
  /\ maxPages' = v
  /\ UNCHANGED <<dsVars, wsRef, cur, insts, currentView, results, jobId,
                 maxReviews, batchSize, companyName, isDarkMode, netVars,
                 obsVars, auditVars>>

\* the theme button of the header
toggleTheme ==
  /\ isDarkMode' = ~isDarkMode
  /\ UNCHANGED <<dsVars, wsRef, cur, insts, currentView, results, jobId,
                 settingsVars, companyName, netVars, obsVars, auditVars>>

\* ------------------------------------------------------------ WebSocket
\* ws.onmessage of the socket of job w
WsMessage(w, status, prog, msg) ==
  /\ w \in 1..Len(sockets) /\ sockets[w].state = "open"
  /\ status = "completed" => Total(gets) + Total(completeCalls) < MaxPolls
  /\ progress' = IF Mounted(sockets[w].inst) THEN prog ELSE progress
  /\ statusMessage' = IF Mounted(sockets[w].inst) THEN msg ELSE statusMessage
  /\ IF status = "completed"
     THEN \* pollJobStatus(jobId) up to the await of axios.get
          gets' = [gets EXCEPT ![sockets[w].job] = @ + 1]
     ELSE UNCHANGED gets
  /\ UNCHANGED <<inputMethod, urls, selectedFile, isAnalyzing, currentJobId,
                 wsRef, cur, insts, appVars, sockets, posts, deletes,
                 obsVars>>
  /\ UNCHANGED auditVars

\* the connection fails: ws.onerror, then ws.onclose; both only log
WsError(w) ==
  /\ w \in 1..Len(sockets) /\ sockets[w].state = "open"
  /\ sockets' = [sockets EXCEPT ![w].state = "closed"]
  /\ UNCHANGED <<dsVars, wsRef, cur, insts, appVars, posts, gets, deletes,
                 obsVars>>
  /\ UNCHANGED auditVars

\* the server closes the connection: ws.onclose only logs
WsClose(w) ==
  /\ w \in 1..Len(sockets) /\ sockets[w].state = "open"
  /\ sockets' = [sockets EXCEPT ![w].state = "closed"]
  /\ UNCHANGED <<dsVars, wsRef, cur, insts, appVars, posts, gets, deletes,
                 obsVars>>
  /\ UNCHANGED auditVars

\* -------------------------------------------------------- pollJobStatus
\* axios.get answered (or rejected: status "error") for job j
\* a completion that leaves the progress as the last push event set it
ProgressLeftAsIs == progress

\* setProgress(100) of the completed branch
CompletedProgress == 100

pollJobStatus(j, status, withResults) ==
  /\ j \in 1..Len(sockets) /\ gets[j] > 0
  /\ gets' = [gets EXCEPT ![j] = @ - 1]
  /\ IF status = "completed" /\ withResults
     THEN /\ isAnalyzing' = IF Mounted(InstOf(j)) THEN FALSE ELSE isAnalyzing
          /\ progress' = IF Mounted(InstOf(j))
                         THEN CompletedProgress ELSE progress
          /\ statusMessage' = IF Mounted(InstOf(j))
                              THEN "Analysis completed!" ELSE statusMessage
          /\ handleAnalysisComplete(j, ResultsOf(j), NoName)
          /\ observed' = Observe(j, "completed")
          /\ UNCHANGED alertMsg
     ELSE IF status = "failed"
     THEN /\ isAnalyzing' = IF Mounted(InstOf(j)) THEN FALSE ELSE isAnalyzing
          /\ statusMessage' = IF Mounted(InstOf(j))
                              THEN "Error: E" ELSE statusMessage
          /\ alertMsg' = "Analysis failed: E"
          /\ observed' = Observe(j, "failed")
          /\ UNCHANGED <<progress, appVars, cur, sockets, completeCalls>>
     ELSE UNCHANGED <<isAnalyzing, progress, statusMessage, appVars, cur,
                      sockets, obsVars>>
  /\ UNCHANGED <<inputMethod, urls, selectedFile, currentJobId, wsRef, insts,
                 posts, deletes>>

\* the answer to a status fetch, the content of job.results left aside
PollAnswered(j, status, withResults) ==
  /\ UNCHANGED auditVars
  /\ pollJobStatus(j, status, withResults)

\* --------------------------------------------------- handleStopAnalysis
\* Stop button (disabled unless analyzing), up to the await of axios.delete
handleStopAnalysis ==
  /\ cur # 0 /\ isAnalyzing
  /\ IF currentJobId # NoJob
     THEN /\ Total(deletes) < MaxCancels
          /\ deletes' = [deletes EXCEPT ![currentJobId] = @ + 1]
     ELSE UNCHANGED deletes
  /\ UNCHANGED <<dsVars, wsRef, cur, insts, appVars, sockets, posts, gets,
                 obsVars>>
  /\ UNCHANGED auditVars

\* axios.delete resolved for job j
CancelResolved(j) ==
  /\ j \in 1..Len(sockets) /\ deletes[j] > 0
  /\ deletes' = [deletes EXCEPT ![j] = @ - 1]
  /\ isAnalyzing' = IF Mounted(InstOf(j)) THEN FALSE ELSE isAnalyzing
  /\ progress' = IF Mounted(InstOf(j)) THEN 0 ELSE progress
  /\ statusMessage' = IF Mounted(InstOf(j))
                      THEN "Analysis cancelled" ELSE statusMessage
  /\ sockets' = CloseWs(sockets, wsRef[InstOf(j)])
  /\ observed' = Observe(j, "cancelled")
  /\ UNCHANGED <<inputMethod, urls, selectedFile, currentJobId, wsRef, cur,
                 insts, appVars, posts, gets, alertMsg, completeCalls>>
  /\ UNCHANGED auditVars

\* axios.delete rejected for job j: the catch block only logs
CancelRejected(j) ==
  /\ j \in 1..Len(sockets) /\ deletes[j] > 0
  /\ deletes' = [deletes EXCEPT ![j] = @ - 1]
  /\ UNCHANGED <<dsVars, wsRef, cur, insts, appVars, sockets, posts, gets,
                 obsVars>>
  /\ UNCHANGED auditVars

\* ---------------------------------------------------------------- Next
\* the input-method radio buttons and the file input of the form
FormNext ==
  \/ \E m \in {"webscraping", "upload"} : SetInputMethod(m)
  \/ \E f \in Files : handleFileDrop(f)
  \/ \E f \in Files : handleFileSelect(f)

\* the URL text, the Start and Stop buttons and the answers to their requests
SubmitNext ==
  \/ \E t \in UrlTexts : SetUrls(t)
  \/ handleStartAnalysis
  \/ \E i \in Insts, k \in Kinds : SubmitResolved(i, k)
  \/ \E i \in Insts, k \in Kinds, d \in {"", "Server detail"} :
        SubmitRejected(i, k, d)
  \/ handleStopAnalysis
  \/ \E j \in Jobs : CancelResolved(j)
  \/ \E j \in Jobs : CancelRejected(j)

\* the push events of the sockets and the answers to the status fetches
ChannelNext ==
  \/ \E w \in Jobs, s \in PushStatuses, g \in ProgressValues,
        m \in PushMessages : WsMessage(w, s, g, m)
  \/ \E w \in Jobs : WsError(w)
  \/ \E w \in Jobs : WsClose(w)
  \/ \E j \in Jobs, s \in PollStatuses, r \in BOOLEAN : PollAnswered(j, s, r)

\* submission, progress, completion and cancellation of jobs
MonitorNext == SubmitNext \/ ChannelNext

\* the navigation bar of App
NavNext ==
  \/ \E v \in {"analysis", "dashboard", "documentation"} : SetCurrentView(v)
  \/ handleRefresh

\* the sidebar sliders and the theme button of App
SettingsNext ==
  \/ \E v \in MaxReviewsValues : SetMaxReviews(v)
  \/ \E v \in BatchSizeValues : SetBatchSize(v)
  \/ \E v \in MaxPagesValues : SetMaxPages(v)
  \/ toggleTheme

Next == FormNext \/ MonitorNext \/ NavNext \/ SettingsNext

\* the whole front end
Spec == Init /\ [][Next]_vars

\* the job monitor in URL mode, with navigation
SpecMonitor == Init /\ [][MonitorNext \/ NavNext]_vars

\* the form in both input modes with its Start and Stop buttons, on the
\* analysis view, before any push event or status fetch
SpecForm == Init /\ [][FormNext \/ SubmitNext]_vars

\* one instance on the analysis view: submission, push events and status
\* answers
FollowNext ==
  \/ \E t \in UrlTexts : SetUrls(t)
  \/ handleStartAnalysis
  \/ \E i \in Insts, k \in Kinds : SubmitResolved(i, k)
  \/ ChannelNext

\* every request the monitor awaits is answered in the end, and the
\* continuation after the await then runs; the server owes no push event
\* and the user no click
AnswersArrive ==
  /\ WF_vars(\E i \in Insts, k \in Kinds : SubmitResolved(i, k))
  /\ WF_vars(\E j \in Jobs, s \in PollStatuses, r \in BOOLEAN :
               PollAnswered(j, s, r))

\* the monitor following its jobs, every awaited answer arriving
SpecFollow == Init /\ [][FollowNext]_vars /\ AnswersArrive

TypeOK ==
  /\ inputMethod \in {"webscraping", "upload"}
  /\ urls \in UrlTexts
  /\ selectedFile \in Files \cup {NoFile}
  /\ isAnalyzing \in BOOLEAN
  /\ progress \in ProgressValues
  /\ currentJobId \in Jobs \cup {NoJob}
  /\ cur \in Insts \cup {0}
  /\ Len(sockets) <= MaxJobs

\* ====================================================== AnalyticsDashboard
MaxItems == 2     \* items of the flat result set

\* elements of results.reviews
Reviews ==
  { [text |-> "Good", review_text |-> Undefined,
     source_url |-> "https://a", url |-> Undefined,
     rating |-> "5", date |-> "2024-01-01"],
    [text |-> Undefined, review_text |-> "Alt",
     source_url |-> Undefined, url |-> "https://b",
     rating |-> Undefined, date |-> Undefined],
    [text |-> Undefined, review_text |-> Undefined,
     source_url |-> Undefined, url |-> Undefined,
     rating |-> Undefined, date |-> Undefined] }

Level1Ids == {"billing", "support"}
Level2Names == {"refunds"}

\* elements of results.topic_assignments; defined = FALSE is a missing
\* element, level2_topic = Undefined an item classified at the top level only
NoAssignment ==
  [defined |-> FALSE, level1_id |-> Undefined, level2_topic |-> Undefined]
Assignments ==
  { NoAssignment,
    [defined |-> TRUE, level1_id |-> "billing", level2_topic |-> "refunds"],
    [defined |-> TRUE, level1_id |-> "billing", level2_topic |-> Undefined],
    [defined |-> TRUE, level1_id |-> "support", level2_topic |-> Undefined] }

\* elements of results.sentiment_results
Sentiments == { [sentiment |-> "positive"], [sentiment |-> Undefined] }

\* the second argument of handleReviewAudit: left out, or any string
AuditNames == {Undefined, "", "refunds", "unclassified"}

\* ------------------------------------------------- aggregation (backend)
\* display name of a Level-1 id
Level1Name(id) == IF id = "billing" THEN "Billing" ELSE "Support"

\* ascending order of the names
AlphaOrder == <<"Billing", "Support", "refunds", "unclassified">>
Rank(name) == CHOOSE n \in 1..Len(AlphaOrder) : AlphaOrder[n] = name

\* a percentage cut, not rounded, to one decimal
PercentageTruncated(count, base) == (count * 1000) \div base

\* count / base x 100 rounded to one decimal, in tenths of a percent
Percentage(count, base) == (count * 2000 + base) \div (2 * base)

\* an order by name alone
BeforeByName(a, b) == Rank(a.name) < Rank(b.name)

\* descending count, ties by ascending name
Before(a, b) ==
  \/ a.count > b.count
  \/ a.count = b.count /\ Rank(a.name) < Rank(b.name)

RECURSIVE Ordered(_)
Ordered(S) ==
  IF S = {} THEN <<>>
  ELSE LET first == CHOOSE a \in S : \A b \in S \ {a} : Before(a, b)
       IN <<first>> \o Ordered(S \ {first})

\* a partition that also takes the items without an assignment
Level1PartitionTakesAll(items, id) ==
  { n \in 1..Len(items) : ~items[n].defined \/ items[n].level1_id = id }

\* positions of the items of a partition
Level1Partition(items, id) ==
  { n \in 1..Len(items) : items[n].defined /\ items[n].level1_id = id }
Level2Partition(items, id, name) ==
  { n \in Level1Partition(items, id) :
      IF name = "unclassified"
      THEN items[n].level2_topic = Undefined
      ELSE items[n].level2_topic = name }

\* the children of a Level-1 node: one per level2 name in use, and the
\* implicit "unclassified" child if some item has no level2 name
Level2Topics(items, id) ==
  LET names == { name \in Level2Names \cup {"unclassified"} :
                   Level2Partition(items, id, name) # {} }
      child(name) ==
        LET count == Cardinality(Level2Partition(items, id, name))
        IN [name |-> name, count |-> count,
            percentage |->
              Percentage(count, Cardinality(Level1Partition(items, id))),
            percentage_of_total |-> Percentage(count, Len(items))]
  IN Ordered({ child(name) : name \in names })

\* aggregate(items): the hierarchy of a flat result set
aggregate(items) ==
  LET ids == { id \in Level1Ids : Level1Partition(items, id) # {} }
      keys == Ordered({ [id |-> id, name |-> Level1Name(id),
                         count |-> Cardinality(Level1Partition(items, id))]
                        : id \in ids })
  IN [n \in 1..Len(keys) |->
        [level1_id |-> keys[n].id,
         level1_name |-> keys[n].name,
         level1_count |-> keys[n].count,
         level1_percentage |-> Percentage(keys[n].count, Len(items)),
         level2_topics |-> Level2Topics(items, keys[n].id)]]

\* ------------------------------------------------------- the audit query
\* hierarchicalStats.find(stat => stat.level1_id === level1Id)
HasLevel1Stat(level1Id) ==
  \E n \in 1..Len(hierarchical_stats) :
    hierarchical_stats[n].level1_id = level1Id
Level1Stat(level1Id) ==
  hierarchical_stats[CHOOSE n \in 1..Len(hierarchical_stats) :
    /\ hierarchical_stats[n].level1_id = level1Id
    /\ \A m \in 1..(n - 1) : hierarchical_stats[m].level1_id # level1Id]

\* a filter that also drops the reviews without text
AuditFilterDropsNoText(index, level1Id, level2Name) ==
  /\ topic_assignments[index].defined
  /\ topic_assignments[index].level1_id = level1Id
  /\ Truthy(level2Name) => topic_assignments[index].level2_topic = level2Name
  /\ Truthy(reviews[index].text)

\* the predicate of results.reviews.filter
AuditFilter(index, level1Id, level2Name) ==
  LET assignment == topic_assignments[index]
  IN IF ~assignment.defined THEN FALSE
     ELSE IF Truthy(level2Name)
          THEN /\ assignment.level1_id = level1Id
               /\ assignment.level2_topic = level2Name
          ELSE assignment.level1_id = level1Id

\* positions, in list order, of the reviews the filter keeps
RECURSIVE FilteredFrom(_, _, _)
FilteredFrom(index, level1Id, level2Name) ==
  IF index > Len(reviews) THEN <<>>
  ELSE (IF AuditFilter(index, level1Id, level2Name)
        THEN <<index>> ELSE <<>>)
       \o FilteredFrom(index + 1, level1Id, level2Name)

\* results.sentiment_results?.find((s, i) => results.reviews[i] === review):
\* the reviews are distinct objects, so the only i is the review's position
SentimentResult(index) ==
  IF index <= Len(sentiment_results)
  THEN sentiment_results[index]
  ELSE [sentiment |-> Undefined]

\* a projection without the fallbacks of the text
AuditRecordNoFallback(index) ==
  [text |-> reviews[index].text,
   sentiment |-> Or(SentimentResult(index).sentiment, "unknown"),
   source_url |->
     Or(reviews[index].source_url, Or(reviews[index].url, "Unknown source")),
   rating |-> reviews[index].rating,
   date |-> reviews[index].date]

\* the callback of .map
AuditRecord(index) ==
  LET review == reviews[index]
  IN [text |-> Or(review.text, Or(review.review_text, "No review text")),
      sentiment |-> Or(SentimentResult(index).sentiment, "unknown"),
      source_url |->
        Or(review.source_url, Or(review.url, "Unknown source")),
      rating |-> review.rating,
      date |-> review.date]

\* a join of the sentiment by the position of the record in the output
filteredReviewsJoinedByRecord(level1Id, level2Name) ==
  LET kept == FilteredFrom(1, level1Id, level2Name)
  IN [k \in 1..Len(kept) |->
        [AuditRecord(kept[k]) EXCEPT
           !.sentiment = Or(SentimentResult(k).sentiment, "unknown")]]

filteredReviews(level1Id, level2Name) ==
  LET kept == FilteredFrom(1, level1Id, level2Name)
  IN [k \in 1..Len(kept) |-> AuditRecord(kept[k])]

\* `${level1Stat.level1_name} -> ${level2Name}` or level1Stat.level1_name
TopicName(level1Id, level2Name) ==
  IF Truthy(level2Name)
  THEN <<Level1Stat(level1Id).level1_name, " -> ", level2Name>>
  ELSE <<Level1Stat(level1Id).level1_name>>

\* an audit that consumes the reviews it shows
handleReviewAuditConsumes(level1Id, level2Name) ==
  /\ currentView = "dashboard" /\ results # NoResults
  /\ HasLevel1Stat(level1Id)
  /\ selectedReviews' = filteredReviews(level1Id, level2Name)
  /\ selectedTopicName' = TopicName(level1Id, level2Name)
  /\ showReviewModal' = TRUE
  /\ lastAudit' =
       [level1Id |-> level1Id, level2Name |-> level2Name,
        repeated |-> /\ lastAudit.level1Id = level1Id
                     /\ lastAudit.level2Name = level2Name]
  /\ topic_assignments' =
       [n \in 1..Len(topic_assignments) |->
          IF AuditFilter(n, level1Id, level2Name)
          THEN NoAssignment ELSE topic_assignments[n]]
  /\ UNCHANGED <<reviews, sentiment_results, hierarchical_stats, dsVars,
                 wsRef, cur, insts, appVars, netVars, obsVars>>

\* an audit that opens the modal, empty, for an id that names no node
handleReviewAuditOpensAnyway(level1Id, level2Name) ==
  /\ currentView = "dashboard" /\ results # NoResults
  /\ IF ~HasLevel1Stat(level1Id)
     THEN /\ selectedReviews' = <<>>
          /\ selectedTopicName' = <<>>
          /\ showReviewModal' = TRUE
          /\ UNCHANGED lastAudit
     ELSE /\ selectedReviews' = filteredReviews(level1Id, level2Name)
          /\ selectedTopicName' = TopicName(level1Id, level2Name)
          /\ showReviewModal' = TRUE
          /\ lastAudit' =
               [level1Id |-> level1Id, level2Name |-> level2Name,
                repeated |-> /\ lastAudit.level1Id = level1Id
                             /\ lastAudit.level2Name = level2Name]
  /\ UNCHANGED <<dataVars, dsVars, wsRef, cur, insts, appVars, netVars,
                 obsVars>>

\* the Review buttons of the hierarchy table
handleReviewAudit(level1Id, level2Name) ==
  /\ currentView = "dashboard" /\ results # NoResults
  /\ IF ~HasLevel1Stat(level1Id)
     THEN UNCHANGED <<dashVars, lastAudit>>
     ELSE /\ selectedReviews' = filteredReviews(level1Id, level2Name)
          /\ selectedTopicName' = TopicName(level1Id, level2Name)
          /\ showReviewModal' = TRUE
          /\ lastAudit' =
               [level1Id |-> level1Id, level2Name |-> level2Name,
                repeated |-> /\ lastAudit.level1Id = level1Id
                             /\ lastAudit.level2Name = level2Name]
  /\ UNCHANGED <<dataVars, dsVars, wsRef, cur, insts, appVars, netVars,
                 obsVars>>

\* the overlay, the x and the Close button of the modal
CloseReviewModal ==
  /\ showReviewModal
  /\ showReviewModal' = FALSE
  /\ UNCHANGED <<selectedReviews, selectedTopicName, lastAudit, dataVars,
                 dsVars, wsRef, cur, insts, appVars, netVars, obsVars>>

\* the application while job 1 runs and its status fetch is under way
BeforeCompletion ==
  /\ inputMethod = "webscraping"
  /\ urls = <<"\n", "a", " ">>
  /\ selectedFile = NoFile
  /\ isAnalyzing = TRUE
  /\ progress = 100
  /\ statusMessage = "Scraping"
  /\ currentJobId = 1
  /\ wsRef = [i \in Insts |-> IF i = 1 THEN 1 ELSE NoWs]
  /\ cur = 1
  /\ insts = 1
  /\ currentView = "analysis"
  /\ results = NoResults
  /\ jobId = NoJob
  /\ maxReviews = DefaultMaxReviews
  /\ batchSize = DefaultBatchSize
  /\ maxPages = DefaultMaxPages
  /\ companyName = <<>>
  /\ isDarkMode = TRUE
  /\ sockets = <<NewSocket(1, 1)>>
  /\ posts = [i \in Insts |-> [k \in Kinds |-> 0]]
  /\ gets = [j \in Jobs |-> IF j = 1 THEN 1 ELSE 0]
  /\ deletes = [j \in Jobs |-> 0]
  /\ alertMsg = ""
  /\ completeCalls = [j \in Jobs |-> 0]
  /\ observed = [j \in Jobs |-> "none"]

InitAudit ==
  /\ BeforeCompletion
  /\ reviews = <<>>
  /\ topic_assignments = <<>>
  /\ sentiment_results = <<>>
  /\ hierarchical_stats = <<>>
  /\ showReviewModal = FALSE
  /\ selectedReviews = <<>>
  /\ selectedTopicName = <<>>
  /\ lastAudit = NoAudit

\* the status fetch of job j (job 1 of the audit) is answered completed with
\* a result set of n items, whose hierarchy the backend aggregated from its topic assignments:
\* the completion callback stores it and the dashboard is mounted on it
ResultSetDelivered(j, items, classes) ==
  /\ reviews' = items
  /\ topic_assignments' \in [1..Len(items) -> classes]
  /\ sentiment_results' \in [1..Len(items) -> Sentiments]
  /\ hierarchical_stats' = aggregate(topic_assignments')
  /\ showReviewModal' = FALSE
  /\ selectedReviews' = <<>>
  /\ selectedTopicName' = <<>>
  /\ lastAudit' = NoAudit
  /\ pollJobStatus(j, "completed", TRUE)

ResultsDelivered(n) ==
  \E items \in [1..n -> Reviews] : ResultSetDelivered(1, items, Assignments)

AuditNext ==
  \/ \E n \in 0..MaxItems : ResultsDelivered(n)
  \/ \E level1Id \in Level1Ids, level2Name \in AuditNames :
       handleReviewAudit(level1Id, level2Name)
  \/ CloseReviewModal

\* the review audit of the dashboard
SpecAudit == InitAudit /\ [][AuditNext]_vars

\* ------------------------------------------------ the application shell
\* source_url values of the first item of a result set
SourceUrls ==
  {Undefined, "https://a", "https://b",
   "https://www.trustpilot.com/review/acme-co",
   "https://www.glassdoor.com/Reviews/ECo",
   "https://www.yelp.com/biz/Bob_s", "https://a.yelp.com/", "not a url"}

\* a scraped item whose source_url is u
SourcedReview(u) ==
  [text |-> "Good", review_text |-> Undefined, source_url |-> u,
   url |-> Undefined, rating |-> "5", date |-> "2024-01-01"]

\* the status fetch of job j is answered completed with a result set of at
\* most one item, not classified
AnalysisDelivered(j) ==
  \/ ResultSetDelivered(j, <<>>, {NoAssignment})
  \/ \E u \in SourceUrls :
       ResultSetDelivered(j, <<SourcedReview(u)>>, {NoAssignment})

\* analyses run to their completion one after the other, the user moving
\* between the views, refreshing and changing the settings
AppNext ==
  \/ SetUrls(<<"\n", "a", " ">>)
  \/ handleStartAnalysis
  \/ \E i \in Insts : SubmitResolved(i, "urls")
  \/ \E w \in Jobs : WsMessage(w, "completed", 100, "Scraping")
  \/ \E j \in Jobs : AnalysisDelivered(j)
  \/ NavNext
  \/ SettingsNext

SpecApp == Init /\ [][AppNext]_vars

\* ------------------------------------------- the aggregation on its own
MaxListed == 3    \* items of a list handed to aggregate

\* Scenario A: 100 items, 40 billing/refunds, 20 billing without a level2
\* name, 40 without assignment
ScenarioA ==
  [n \in 1..100 |->
     IF n <= 40
     THEN [defined |-> TRUE, level1_id |-> "billing",
           level2_topic |-> "refunds"]
     ELSE IF n <= 60
     THEN [defined |-> TRUE, level1_id |-> "billing",
           level2_topic |-> Undefined]
     ELSE NoAssignment]

\* job 1 runs; the backend has classified its items and has not aggregated
\* them yet
InitAggregate ==
  /\ BeforeCompletion
  /\ \/ \E n \in 0..MaxListed : topic_assignments \in [1..n -> Assignments]
     \/ topic_assignments = ScenarioA
  /\ reviews = <<>>
  /\ sentiment_results = <<>>
  /\ hierarchical_stats = <<>>
  /\ showReviewModal = FALSE
  /\ selectedReviews = <<>>
  /\ selectedTopicName = <<>>
  /\ lastAudit = NoAudit

\* the backend aggregates the classified items
AggregateItems ==
  /\ hierarchical_stats = <<>>
  /\ hierarchical_stats' = aggregate(topic_assignments)
  /\ UNCHANGED <<reviews, topic_assignments, sentiment_results, dashVars,
                 lastAudit, dsVars, wsRef, cur, insts, appVars, netVars,
                 obsVars>>

\* the aggregation engine applied to item lists
SpecAggregate == InitAggregate /\ [][AggregateItems]_vars

\* ============================================================== claims
\* job j is the job the mounted instance shows
Shown(j) == cur # 0 /\ currentJobId = j /\ InstOf(j) = cur

\* a push event or a status-fetch answer of job j is handled
ChannelEvent(j) ==
  \/ \E s \in PushStatuses, g \in ProgressValues, m \in PushMessages :
       WsMessage(j, s, g, m)
  \/ \E s \in PollStatuses, r \in BOOLEAN : PollAnswered(j, s, r)

\* the text holds nothing but white space
BlankText(t) == \A n \in 1..Len(t) : t[n] \in {" ", "\n", "\t"}

\* C1: the completion callback is invoked at most once per job, however many
\* completed events are delivered and whichever channel delivers them.
CompletionAtMostOnce == \A j \in Jobs : completeCalls[j] <= 1

\* C2: before a terminal outcome of the shown job, a push event without a
\* terminal status never lowers the stored progress.
ProgressNeverDecreases ==
  [][\A j \in Jobs, s \in {"running"}, g \in ProgressValues,
        m \in PushMessages :
       (WsMessage(j, s, g, m) /\ Shown(j) /\ isAnalyzing
          /\ observed[j] = "none")
         => progress' >= progress]_vars

\* C3: once cancel has been called for a job (its request is awaiting the
\* answer, or has succeeded), no later step invokes the completion callback
\* for that job, and a job shown as cancelled stays shown as cancelled.
NoCompletionAfterCancel ==
  [][\A j \in Jobs :
       /\ (deletes[j] > 0 \/ observed[j] = "cancelled")
            => completeCalls'[j] = completeCalls[j]
       /\ (ChannelEvent(j) /\ Shown(j) /\ observed[j] = "cancelled"
             /\ statusMessage = "Analysis cancelled")
            => UNCHANGED <<isAnalyzing, progress, statusMessage>>]_vars

\* C4: when the push channel of a job fails or closes before any terminal
\* outcome of that job, a status query of the job is under way right after.
FallbackOnPushLoss ==
  [][\A w \in Jobs :
       ((WsError(w) \/ WsClose(w)) /\ observed[w] = "none")
         => gets'[w] > 0]_vars

\* C5: once a terminal outcome of the shown job has been taken, no later
\* push event or status answer of that job changes isAnalyzing, progress or
\* statusMessage.
TerminalIsFinal ==
  [][\A j \in Jobs :
       (ChannelEvent(j) /\ Shown(j) /\ observed[j] # "none")
         => UNCHANGED <<isAnalyzing, progress, statusMessage>>]_vars

\* the form carries neither a URL (URL mode) nor a file (upload mode)
FormCarriesNothing ==
  \/ inputMethod = "webscraping" /\ BlankText(urls)
  \/ inputMethod = "upload" /\ selectedFile = NoFile

\* C6: Start on a form that carries nothing sends no submit request, records
\* no job id, opens no socket and leaves the monitor not analyzing.
EmptySubmissionRejected ==
  [][(handleStartAnalysis /\ FormCarriesNothing)
       => /\ posts' = posts
          /\ currentJobId' = currentJobId
          /\ sockets' = sockets /\ wsRef' = wsRef
          /\ ~isAnalyzing']_vars

\* C6 witness: Start was refused on a URL text of white space only
EmptySubmissionSeen ==
  /\ alertMsg = "Please enter at least one URL"
  /\ inputMethod = "webscraping" /\ urls # <<>> /\ BlankText(urls)
  /\ ~isAnalyzing /\ Pending(posts) = 0 /\ sockets = <<>>

\* the form holds a URL and a file at once
BothPresent == ~BlankText(urls) /\ selectedFile # NoFile

CancelTearsDown ==
  [][\A j \in Jobs :
       (CancelResolved(j) /\ Shown(j))
         => /\ ~isAnalyzing' /\ statusMessage' = "Analysis cancelled"
            /\ \A w \in 1..Len(sockets') :
                 sockets'[w].job = j => sockets'[w].state = "closed"
            /\ gets'[j] = 0]_vars

\* C9: Stop on a job whose terminal outcome has already been taken sends no
\* cancel request.
CancelIdempotent ==
  [][(handleStopAnalysis /\ currentJobId # NoJob
        /\ observed[currentJobId] # "none")
       => UNCHANGED <<deletes, dsVars>>]_vars

\* C10: right after Stop has sent the cancel request, the socket of the job
\* is closed, without waiting for the answer.
CancelReleasesAtOnce ==
  [][(handleStopAnalysis /\ currentJobId # NoJob)
       => sockets'[currentJobId].state = "closed"]_vars

\* C11: whenever a terminal outcome of a job has been taken, or the instance
\* that opened its socket is no longer mounted, the socket of that job is
\* not open.
ReleasedOnEveryExit ==
  \A j \in 1..Len(sockets) :
    (observed[j] # "none" \/ ~Mounted(InstOf(j)))
      => sockets[j].state # "open"

\* C12: when a push event reports failed for the shown, analyzing job, the
\* monitor stops analyzing in that step or has a status fetch of the job
\* under way that can tell it so.
PushFailureEndsAnalysis ==
  [][\A j \in Jobs, g \in ProgressValues, m \in PushMessages :
       (WsMessage(j, "failed", g, m) /\ Shown(j) /\ isAnalyzing)
         => (~isAnalyzing' \/ gets'[j] > 0)]_vars

\* C13: a status fetch of the shown, analyzing job answered 'not found' makes
\* the monitor stop analyzing and records the failed outcome of the job.
NotFoundIsFatal ==
  [][\A j \in Jobs, r \in BOOLEAN :
       (PollAnswered(j, "notfound", r) /\ Shown(j) /\ isAnalyzing)
         => (~isAnalyzing' /\ observed'[j] = "failed")]_vars

\* C14: a status fetch that fails on the network, for a job without terminal
\* outcome, is replaced by another status fetch of that job.
FailedFetchRetried ==
  [][\A j \in Jobs, r \in BOOLEAN :
       (PollAnswered(j, "error", r) /\ observed[j] = "none")
         => gets'[j] >= gets[j]]_vars

\* C15: when a submit request of the mounted instance is rejected, the
\* monitor is not analyzing afterwards, no job id is recorded and no socket
\* is opened.
SubmitFailureReturnsIdle ==
  [][\A i \in Insts, k \in Kinds, d \in {"", "Server detail"} :
       (SubmitRejected(i, k, d) /\ Mounted(i))
         => /\ ~isAnalyzing'
            /\ currentJobId' = currentJobId
            /\ sockets' = sockets /\ wsRef' = wsRef]_vars

\* C15 witness: the only submission made was rejected; the monitor is idle
\* again with no job id and no socket
SubmitFailureSeen ==
  /\ alertMsg \in {"Analysis failed", "File upload failed", "Server detail"}
  /\ cur # 0 /\ ~isAnalyzing /\ currentJobId = NoJob
  /\ statusMessage \in {"Starting analysis...", "Uploading file..."}
  /\ Pending(posts) = 0 /\ sockets = <<>>

\* ------------------------------------------------------ audit and hierarchy
\* the k-th smallest position of a set of positions
Nth(M, k) == CHOOSE n \in M : Cardinality({ m \in M : m <= n }) = k

\* the items the audit contract selects: a level2Name that is passed,
\* whatever its value, restricts the selection
ContractMatches(level1Id, level2Name) ==
  { n \in 1..Len(reviews) :
      /\ topic_assignments[n].defined
      /\ topic_assignments[n].level1_id = level1Id
      /\ level2Name # Undefined
           => topic_assignments[n].level2_topic = level2Name }

\* the items the Review buttons select: an empty level2Name counts as none
ButtonMatches(level1Id, level2Name) ==
  { n \in 1..Len(reviews) :
      /\ topic_assignments[n].defined
      /\ topic_assignments[n].level1_id = level1Id
      /\ level2Name \notin {Undefined, ""}
           => topic_assignments[n].level2_topic = level2Name }

\* record rec projects review
Projects(rec, review) ==
  /\ review.text # Undefined => rec.text = review.text
  /\ review.text = Undefined
       => rec.text \in {review.review_text, "No review text"} \ {Undefined}
  /\ rec.rating = review.rating
  /\ rec.date = review.date

\* C16: an audit for (level1Id, level2Name) shows exactly the items assigned
\* to level1Id and, when a level2Name is passed, whatever its value, to that
\* level2Name: none more, none less.
AuditReturnsExactMatches ==
  [][\A level1Id \in Level1Ids, level2Name \in AuditNames :
       (handleReviewAudit(level1Id, level2Name) /\ HasLevel1Stat(level1Id))
         => LET M == ContractMatches(level1Id, level2Name)
            IN /\ Len(selectedReviews') = Cardinality(M)
               /\ \A k \in 1..Cardinality(M) :
                    Projects(selectedReviews'[k], reviews[Nth(M, k)])]_vars

\* the hierarchy has a node for (level1Id, level2Name); level2Name Undefined
\* names the Level-1 node itself
NamesNode(level1Id, level2Name) ==
  /\ HasLevel1Stat(level1Id)
  /\ level2Name # Undefined
       => \E c \in 1..Len(Level1Stat(level1Id).level2_topics) :
            Level1Stat(level1Id).level2_topics[c].name = level2Name

NodeCount(level1Id, level2Name) ==
  IF level2Name = Undefined
  THEN Level1Stat(level1Id).level1_count
  ELSE LET topics == Level1Stat(level1Id).level2_topics
       IN topics[CHOOSE c \in 1..Len(topics) :
                   topics[c].name = level2Name].count

EveryMatchOneRecordInOrder ==
  [][\A level1Id \in Level1Ids, level2Name \in AuditNames :
       (handleReviewAudit(level1Id, level2Name) /\ HasLevel1Stat(level1Id))
         => LET M == ButtonMatches(level1Id, level2Name)
            IN /\ Len(selectedReviews') = Cardinality(M)
               /\ \A k \in 1..Cardinality(M) :
                    /\ Projects(selectedReviews'[k], reviews[Nth(M, k)])
                    /\ selectedReviews'[k].text # Undefined]_vars

\* C18 witness: an audit has shown two items, the first of them without
\* any text, in the order of the list.
PlaceholderRecordSeen ==
  /\ showReviewModal /\ lastAudit # NoAudit
  /\ Len(reviews) = 2
  /\ reviews[1].text = Undefined /\ reviews[1].review_text = Undefined
  /\ reviews[2].text = "Good"
  /\ Len(selectedReviews) = 2
  /\ selectedReviews[1].text = "No review text"
  /\ selectedReviews[2].text = "Good"

\* C19: an audit leaves the result set (reviews, topic assignments,
\* sentiment results, hierarchy) unchanged, and an audit repeated with the
\* arguments of the last one shows the same records in the same order.
AuditIsPure ==
  [][\A level1Id \in Level1Ids, level2Name \in AuditNames :
       handleReviewAudit(level1Id, level2Name)
         => /\ UNCHANGED dataVars
            /\ (lastAudit.level1Id = level1Id
                  /\ lastAudit.level2Name = level2Name)
                 => selectedReviews' = selectedReviews]_vars

\* C19 witness: an audit that showed records has been repeated with the
\* same arguments.
AuditRepeated ==
  /\ lastAudit.repeated
  /\ selectedReviews # <<>>
  /\ hierarchical_stats = aggregate(topic_assignments)

RECURSIVE SumSeq(_)
SumSeq(q) == IF q = <<>> THEN 0 ELSE Head(q) + SumSeq(Tail(q))

\* items without a level1Id
Unassigned ==
  Cardinality({ n \in 1..Len(topic_assignments) :
                  ~topic_assignments[n].defined })

\* C20: the Level-1 counts of the hierarchy plus the number of items without
\* a level1Id add up to the number of items, and the counts of the children
\* of every Level-1 node, the unclassified child included, add up to the
\* count of the node.
AggregateConservesCounts ==
  /\ SumSeq([n \in 1..Len(hierarchical_stats) |->
              hierarchical_stats[n].level1_count]) + Unassigned
       = Len(topic_assignments)
  /\ \A n \in 1..Len(hierarchical_stats) :
       LET topics == hierarchical_stats[n].level2_topics
       IN SumSeq([c \in 1..Len(topics) |-> topics[c].count])
            = hierarchical_stats[n].level1_count

\* C20 witness: a result set with an item without assignment and a Level-1
\* node that has the unclassified child.
UnclassifiedChildSeen ==
  /\ Unassigned > 0
  /\ \E n \in 1..Len(hierarchical_stats) :
       LET topics == hierarchical_stats[n].level2_topics
       IN \E c \in 1..Len(topics) : topics[c].name = "unclassified"

\* C21: the Level-1 nodes of the hierarchy are in descending order of count,
\* nodes of equal count in ascending order of name, and so are the children
\* of every node.
OrderedByCountThenName ==
  /\ \A n, m \in 1..Len(hierarchical_stats) :
       n < m =>
         \/ hierarchical_stats[n].level1_count
              > hierarchical_stats[m].level1_count
         \/ /\ hierarchical_stats[n].level1_count
                 = hierarchical_stats[m].level1_count
            /\ Rank(hierarchical_stats[n].level1_name)
                 < Rank(hierarchical_stats[m].level1_name)
  /\ \A n \in 1..Len(hierarchical_stats) :
       LET topics == hierarchical_stats[n].level2_topics
       IN \A c, e \in 1..Len(topics) :
            c < e =>
              \/ topics[c].count > topics[e].count
              \/ /\ topics[c].count = topics[e].count
                 /\ Rank(topics[c].name) < Rank(topics[e].name)

\* C21 witness: a node of larger count stands before a node whose name
\* comes first.
LargerCountFirstSeen ==
  /\ Len(hierarchical_stats) = 2
  /\ hierarchical_stats[1].level1_name = "Support"
  /\ hierarchical_stats[1].level1_count = 2
  /\ hierarchical_stats[2].level1_name = "Billing"
  /\ hierarchical_stats[2].level1_count = 1

\* the Level-1 node of billing
Billing == Level1Stat("billing")

\* C22: for the 100 items of Scenario A the node billing has count 60 and
\* 60.0 percent of the total, and its child refunds has count 40, 66.7
\* percent of billing and 40.0 percent of the total (percentages in tenths).
ScenarioAYieldsExpected ==
  (topic_assignments = ScenarioA /\ hierarchical_stats # <<>>)
    => /\ Len(hierarchical_stats) = 1
       /\ Billing.level1_count = 60
       /\ Billing.level1_percentage = 600
       /\ \E c \in 1..Len(Billing.level2_topics) :
            Billing.level2_topics[c]
              = [name |-> "refunds", count |-> 40, percentage |-> 667,
                 percentage_of_total |-> 400]

\* C22 witness: the items of Scenario A have been aggregated.
ScenarioAAggregated ==
  /\ topic_assignments = ScenarioA
  /\ Len(hierarchical_stats) = 1
  /\ Len(Billing.level2_topics) = 2

\* C23: whenever the monitor shows its job as completed, the progress it
\* holds is 100, and no later event changes that.
CompletedShowsFull ==
  statusMessage = "Analysis completed!" => progress = 100

\* C23 witness: a job has completed on the instance that showed it.
CompletionShown ==
  /\ statusMessage = "Analysis completed!"
  /\ progress = 100
  /\ \E j \in Jobs :
       /\ completeCalls[j] = 1 /\ currentJobId = j
       /\ j \in 1..Len(sockets) /\ InstOf(j) = insts
  /\ cur = 0 /\ currentView = "dashboard"

\* the push channel of job j is open and has delivered no event since the
\* submission
PushSilent(j) ==
  /\ j \in 1..Len(sockets) /\ Shown(j) /\ isAnalyzing
  /\ sockets[j].state = "open"
  /\ statusMessage = "Starting analysis..."
  /\ gets[j] = 0 /\ observed[j] = "none"

\* a step of the monitor that starts the status query of job j without
\* handling a push event and leaves the push channel open
GuardWindowElapses(j) ==
  /\ MonitorNext \/ NavNext
  /\ gets'[j] > gets[j]
  /\ sockets'[j].state = "open"
  /\ UNCHANGED <<progress, statusMessage>>

\* C24: while the push channel of the shown job stays silent, the monitor
\* is able to start the status query on its own, the push channel staying
\* open.
PullStartsWhenPushSilent ==
  \A j \in Jobs : PushSilent(j) => ENABLED GuardWindowElapses(j)

\* C25: the completion callback is invoked only by the step that handles the
\* answer of a status fetch of that job, and it hands over the result set
\* of that job: never a push event alone, never a missing result.
CallbackOnlyFromFetchedResult ==
  [][\A j \in Jobs :
       completeCalls'[j] > completeCalls[j]
         => /\ gets[j] > 0 /\ gets'[j] = gets[j] - 1
            /\ \E r \in BOOLEAN : PollAnswered(j, "completed", r)
            /\ ~PollAnswered(j, "completed", FALSE)
            /\ jobId' = j
            /\ Len(results') = 2 /\ results'[2] = j]_vars

\* C25 witness: the callback has been invoked for job 1 with its result set.
CallbackMadeWithResult ==
  /\ completeCalls[1] = 1
  /\ jobId = 1 /\ results = <<"results of job", 1>>
  /\ gets[1] = 0

\* C26: the answer to a successful submission opens exactly one socket, for
\* the job id of that answer, before any event of that job is handled; a
\* rejected submission opens none, and no other step opens a socket.
OneSocketPerSubmission ==
  [][/\ \A i \in Insts, k \in Kinds :
          SubmitResolved(i, k)
            => LET j == Len(sockets) + 1
               IN /\ Len(sockets') = j
                  /\ \A w \in 1..Len(sockets) : sockets'[w] = sockets[w]
                  /\ sockets'[j].job = j /\ sockets'[j].inst = i
                  /\ sockets'[j].state = "open"
                  /\ wsRef'[i] = j
                  /\ j \in Jobs => /\ gets'[j] = 0 /\ observed'[j] = "none"
                                   /\ completeCalls'[j] = 0
     /\ \A i \in Insts, k \in Kinds, d \in {"", "Server detail"} :
          SubmitRejected(i, k, d) => sockets' = sockets /\ wsRef' = wsRef
     /\ Len(sockets') # Len(sockets)
          => \E i \in Insts, k \in Kinds : SubmitResolved(i, k)]_vars

\* C26 witness: two submissions have been answered and each got its own
\* socket.
TwoSubmissionsTwoSockets ==
  /\ Len(sockets) = 2
  /\ sockets[1].job = 1 /\ sockets[2].job = 2
  /\ sockets[2].state = "open"
  /\ wsRef[cur] = 2 /\ currentJobId = 2
  /\ Pending(posts) = 0

\* C27: the sentiment of every audit record is the sentiment classified at
\* the list position of the item it projects, not at the position of the
\* record in the output, and it is unknown only when that position has no
\* sentiment.
SentimentJoinedByPosition ==
  [][\A level1Id \in Level1Ids, level2Name \in AuditNames :
       (handleReviewAudit(level1Id, level2Name) /\ HasLevel1Stat(level1Id))
         => LET M == ButtonMatches(level1Id, level2Name)
            IN \A k \in 1..Len(selectedReviews') :
                 LET at == sentiment_results[Nth(M, k)].sentiment
                 IN selectedReviews'[k].sentiment =
                      (IF at = Undefined THEN "unknown" ELSE at)]_vars

\* C27 witness: the audit shows the second item of the list alone; the
\* first item has a sentiment, the second has none.
SecondItemAuditedAlone ==
  /\ showReviewModal
  /\ Len(reviews) = 2 /\ Len(selectedReviews) = 1
  /\ ~topic_assignments[1].defined
  /\ sentiment_results[1].sentiment = "positive"
  /\ sentiment_results[2].sentiment = Undefined
  /\ selectedReviews[1].sentiment = "unknown"

\* sockets of the instance i that are open
OpenSockets(i) ==
  { w \in 1..Len(sockets) : sockets[w].inst = i /\ sockets[w].state = "open" }

\* C28: the monitor never has more than one open socket, and a push event
\* or a status answer of an earlier job never changes isAnalyzing, progress
\* or statusMessage shown for the job of the current analysis.
OneOpenSocketNoStaleEvent ==
  [][/\ \A i \in Insts : Cardinality(OpenSockets(i)') <= 1
     /\ \A j \in Jobs :
          (ChannelEvent(j) /\ cur # 0 /\ currentJobId # j)
            => UNCHANGED <<isAnalyzing, progress, statusMessage>>]_vars

\* instance i has a submit request awaiting its answer, or a job that has
\* taken no terminal outcome
InFlight(i) ==
  \/ Total(posts[i]) > 0
  \/ \E j \in 1..Len(sockets) : sockets[j].inst = i /\ observed[j] = "none"

\* C29: a submit request is sent only when the monitor has no submit request
\* awaiting its answer and no job without a terminal outcome.
StartOnlyWhenNothingInFlight ==
  [][Pending(posts') > Pending(posts) => ~InFlight(cur)]_vars

\* C30: a cancel request is sent only for the job of the analysis in
\* progress, never for an earlier job while the submit request of the new
\* analysis awaits its answer; and a job created after a Stop of its
\* analysis took effect is not left running with the monitor idle.
StopTargetsCurrentJob ==
  [][/\ \A j \in Jobs :
          deletes'[j] > deletes[j]
            => /\ Total(posts[cur]) = 0
               /\ wsRef[cur] = j /\ observed[j] = "none"
     /\ \A i \in Insts, k \in Kinds :
          (SubmitResolved(i, k) /\ Mounted(i)
             /\ statusMessage = "Analysis cancelled")
            => isAnalyzing']_vars

\* C31: the completion callback is never invoked for the job of an instance
\* that has been unmounted, so a status answer that arrives after the
\* unmount changes neither the view nor the results of the application.
NoCallbackAfterUnmount ==
  [][\A j \in Jobs :
       (j \in 1..Len(sockets) /\ ~Mounted(InstOf(j)))
         => /\ completeCalls'[j] = completeCalls[j]
            /\ (\E s \in PollStatuses, r \in BOOLEAN : PollAnswered(j, s, r))
                 => UNCHANGED appVars]_vars

\* C32: once the status fetch that follows a push event with status
\* completed is under way for the shown job, the monitor eventually leaves
\* the analyzing state, whatever the answer is.
AnsweredFetchEndsAnalysis ==
  \A j \in Jobs :
    (j \in 1..Len(sockets) /\ gets[j] > 0 /\ Shown(j) /\ isAnalyzing)
      ~> ~isAnalyzing

\* C33: the current view is the dashboard only if a result set is present,
\* after any sequence of navigation, analysis completion and refresh.
DashboardOnlyWithResults == currentView = "dashboard" => results # NoResults

\* the dashboard shows the results of the second analysis, the first one
\* having completed too
DashboardOfSecondAnalysis ==
  /\ currentView = "dashboard" /\ results = ResultsOf(2)
  /\ completeCalls[1] > 0

\* C34: the stored job id and the stored result set are present together
\* or absent together, and when present the result set is the one the
\* completion callback delivered with that job id.
JobIdPairedWithResults ==
  /\ (jobId = NoJob) <=> (results = NoResults)
  /\ jobId # NoJob
       => /\ jobId \in Jobs /\ completeCalls[jobId] > 0
          /\ results = <<"results of job", jobId>>

\* job 1 was fetched before the user started job 2 from a new form, and its
\* answer came after the completion of job 2: the application holds job 1
\* and its results
EarlierJobStoredLast ==
  /\ jobId = 1 /\ results = <<"results of job", 1>>
  /\ completeCalls[2] > 0 /\ InstOf(1) # InstOf(2)

\* C35: an audit request for a level1Id that names no node of the
\* hierarchy changes nothing: no such request has a successor state in
\* which the modal flag, the selected records or the topic name differ.
UnknownNodeAuditChangesNothing ==
  \A level1Id \in Level1Ids, level2Name \in AuditNames :
    (currentView = "dashboard" /\ results # NoResults
       /\ ~HasLevel1Stat(level1Id))
      => /\ ENABLED (handleReviewAudit(level1Id, level2Name)
                       /\ UNCHANGED dashVars)
         /\ ~ENABLED (handleReviewAudit(level1Id, level2Name)
                        /\ ~UNCHANGED dashVars)

\* the modal shows the records of an earlier audit of "billing" and has
\* been closed; "support" names no node of the hierarchy, and the request
\* for it leaves this state as it is
UnknownNodeAuditAfterShownAudit ==
  /\ currentView = "dashboard" /\ results # NoResults
  /\ ~showReviewModal /\ selectedReviews # <<>>
  /\ lastAudit.level1Id = "billing"
  /\ ~HasLevel1Stat("support")
  /\ ENABLED (handleReviewAudit("support", Undefined) /\ UNCHANGED vars)

CompanyNameOfThisAnalysis ==
  [][\A j \in Jobs :
       (completeCalls[j] = 0 /\ completeCalls'[j] = 1)
         => IF HasSourceUrl(reviews')
            THEN companyName' = extractCompanyName(reviews'[1].source_url)
            ELSE companyName = <<>> \/ companyName' # companyName]_vars

====
